---- MODULE Spec2Model ----
(***************************************************************************)
(* x25fs: the in-memory node tree (node.go, file.go), the inode allocator, *)
(* the snapshot codec and SaveData/LoadData (serialization.go) and the     *)
(* start/serve/save life cycle of main (main.go).                          *)
(*                                                                         *)
(* Go objects live in a heap of node ids: kind, Attributes, Children and   *)
(* Data are the fields of *Dir and *File.  A []byte is a record            *)
(* [arr, len]: arr is the backing array (its length is the capacity), len  *)
(* the slice length.  Names are sequences of characters, so that           *)
(* filepath.Base can be computed.  64-bit integers are scaled to WordBits  *)
(* bits and MAX_FILE_SIZE (2^29 in file.go:36) to a few bytes.             *)
(*                                                                         *)
(* Specifications:                                                         *)
(*   Spec      one run of the program: start, requests of the owner, save  *)
(*   SpecRuns  runs one after the other on the same disk path              *)
(*   SpecSave  SaveData step by step, next to Create and Mkdir, with kills *)
(*   SpecLock  Rename step by step in two goroutines                       *)
(*   SpecFile  one file and every kind of offset and size                  *)
(*   SpecNames the owner's requests under valid and invalid names          *)
(*   SpecPerm  callers other than the owner, under several root modes      *)
(*   SpecAlloc the allocator at the end of the counter's range             *)
(*   SpecMain  the end of the serving phase step by step; SpecMainFair     *)
(*             adds the scheduling of the main and serve goroutines        *)
(*   SpecRecord the walk of SerializeDir next to Write and Setattr of a    *)
(*             file                                                        *)
(*   SpecWalk  the walk of SaveData next to Rename in two goroutines       *)
(*   SpecAttr  Setattr and Attr of the root next to a Rename and the walk  *)
(***************************************************************************)
EXTENDS Integers, Sequences, FiniteSets, TLC

VARIABLES
    kind,          \* node id -> "none" | "dir" | "file" (dynamic type of fs.Node)
    Attributes,    \* node id -> fuse.Attr
    Children,      \* node id -> (name -> node id), Dir.Children
    Data,          \* node id -> []byte, File.Data
    inodeCounter,  \* node.go:22
    disk,          \* bytes of the file at diskPath; <<>> when there is none
    tmp,           \* bytes of renameio's temporary file; <<>> when there is none
    pc,            \* position of main: "start", "serving", "saved", "fatal", "exited"
    ret,           \* what the last completed call returned
    save,          \* the running SaveData: its position and locals
    thr            \* the goroutines: position and locals of each (a running
                   \* Rename; under SpecMain, main in its select and fs.Serve)

vars == <<kind, Attributes, Children, Data, inodeCounter, disk, tmp, pc, ret,
          save, thr>>

heapVars == <<kind, Attributes, Children, Data>>

----------------------------------------------------------------------------
\* Bounds of the model.

MaxNodes == 3        \* Go objects one process run may allocate (root included)
MaxInode == 5        \* Create/Mkdir are not explored past this counter value
WordBits == 4        \* width standing for the 64 bits of uint64/int64/int
MAX_FILE_SIZE == 3   \* file.go:36 (536870912), scaled
MaxTime == 2         \* the clock: time.Now() returns MaxTime, requests carry 1

X25FS_VERSION == 10000

NodeIds == 1..MaxNodes
RootId == 1
Byte == {0, 1}
Now == MaxTime

UintMod == 2 ^ WordBits
IntMax == 2 ^ (WordBits - 1) - 1

\* uint64(x) and int64(x)/int(x) of Go: two's complement conversions.
ToUint64(x) == x % UintMod

ToInt64(x) == IF x % UintMod > IntMax THEN (x % UintMod) - UintMod ELSE x % UintMod

Min(a, b) == IF a < b THEN a ELSE b

HasBit(mode, bit) == (mode \div bit) % 2 = 1

\* os.ModeDir (bit 31 in Go) sits right above the nine permission bits here.
ModeDir == 2 ^ 9

\* FileMode.Perm()
Perm(mode) == mode % 512

\* 0644 and 0755 (main.go:134)
FileMode == 6 * 64 + 4 * 8 + 4

DirMode == 7 * 64 + 5 * 8 + 5

EmptyMap == [x \in {} |-> 0]

Put(f, k, v) == [x \in (DOMAIN f) \cup {k} |-> IF x = k THEN v ELSE f[x]]

Del(f, k) == [x \in (DOMAIN f) \ {k} |-> f[x]]

ZeroAttr ==
    [Inode |-> 0, Size |-> 0, Atime |-> 0, Mtime |-> 0, Ctime |-> 0,
     Mode |-> 0, Uid |-> 0, Gid |-> 0]

\* []byte{}: a slice of length 0.
EmptySlice == [arr |-> <<>>, len |-> 0]

\* The bytes a slice denotes.
Bytes(s) == SubSeq(s.arr, 1, s.len)

\* make([]byte, n): n zero bytes.
Zeros(n) == [i \in 1..n |-> 0]

\* copy(dst, src) for sequences: the first min(len) elements of dst are replaced.
Copy(dst, src) ==
    [i \in 1..Len(dst) |-> IF i <= Len(src) THEN src[i] ELSE dst[i]]

\* copy(dst[off:], src) on a backing array dst whose slice has length n.
CopyAt(dst, n, off, src) ==
    [i \in 1..Len(dst) |->
        IF i > off /\ i <= off + Len(src) /\ i <= n THEN src[i - off] ELSE dst[i]]

----------------------------------------------------------------------------
\* Names.

Sep == "/"

NameA == <<"a">>
NameB == <<"b">>
ValidNames == {NameA, NameB}

\* ValidateName: rejects the empty name, "." and "..", and a separator.
ValidateName(name) ==
    IF \/ name = <<>>
       \/ name = <<".">>
       \/ name = <<".", ".">>
       \/ \E i \in 1..Len(name) : name[i] = Sep
    THEN "EINVAL" ELSE "OK"

----------------------------------------------------------------------------
\* Inode allocator (node.go:22-39).

\* atomic.AddUint64(&inodeCounter, 1): the new value of the counter.
AddUint64(c) == (c + 1) % UintMod

\* A load that keeps the counter of the fresh process.
LoadInodeCounter_Ignored(c, savedCounter) == c

\* LoadInodeCounter (node.go:33-35): atomic.StoreUint64.
LoadInodeCounter(c, savedCounter) == savedCounter

CurrentInodeCounter(c) == c

\* The smallest free heap slot: the object a &File{} or &Dir{} allocates.
NewNode == CHOOSE n \in NodeIds : kind[n] = "none" /\ \A m \in 1..(n - 1) : kind[m] # "none"

HasRoom == \E n \in NodeIds : kind[n] = "none"

Dirs == {n \in NodeIds : kind[n] = "dir"}
Files == {n \in NodeIds : kind[n] = "file"}

----------------------------------------------------------------------------
\* File (file.go).

\* file.go:54-72: the fields of the presence mask other than size.
ApplyCommon(attr, req) ==
    [attr EXCEPT
        !.Mode = IF "Mode" \in req.Valid THEN req.Mode ELSE @,
        !.Uid = IF "Uid" \in req.Valid THEN req.Uid ELSE @,
        !.Gid = IF "Gid" \in req.Valid THEN req.Gid ELSE @,
        !.Atime = IF "Atime" \in req.Valid THEN req.Atime ELSE @,
        !.Mtime = IF "Mtime" \in req.Valid THEN req.Mtime ELSE @]

\* A size branch that grows within the capacity by reslicing the buffer.
SetattrResize_Reslice(s, reqSize) ==
    LET newSize == ToInt64(reqSize)
    IN  IF newSize < 0
        THEN [err |-> "PANIC", data |-> s]
        ELSE IF newSize <= Len(s.arr)
        THEN [err |-> "OK", data |-> [s EXCEPT !.len = newSize]]
        ELSE IF newSize > MAX_FILE_SIZE
        THEN [err |-> "EFBIG", data |-> s]
        ELSE [err |-> "OK",
              data |-> [arr |-> Copy(Zeros(newSize), Bytes(s)), len |-> newSize]]

\* file.go:74-90: what the size branch does to the buffer; err is "EFBIG", or
\* "PANIC" when the slice expression of line 79 is out of range.
SetattrResize(s, reqSize) ==
    LET currentSize == s.len
        newSize == ToInt64(reqSize)
    IN  IF newSize < currentSize
        THEN IF newSize < 0
             THEN [err |-> "PANIC", data |-> s]
             ELSE [err |-> "OK", data |-> [s EXCEPT !.len = newSize]]
        ELSE IF newSize > currentSize
             THEN IF newSize > MAX_FILE_SIZE
                  THEN [err |-> "EFBIG", data |-> s]
                  ELSE [err |-> "OK",
                        data |-> [arr |-> Copy(Zeros(newSize), Bytes(s)),
                                  len |-> newSize]]
             ELSE [err |-> "OK", data |-> s]

\* File.Setattr (file.go:46-97).
File_Setattr(f, req, now) ==
    /\ kind[f] = "file"
    /\ LET a1 == ApplyCommon(Attributes[f], req)
           r == SetattrResize(Data[f], req.Size)
       IN  IF "Size" \notin req.Valid
           THEN /\ Attributes' = [Attributes EXCEPT ![f] = a1]
                /\ Data' = Data
                /\ ret' = [op |-> "Setattr", err |-> "OK", node |-> f, req |-> req]
           ELSE IF r.err # "OK"
           THEN /\ Attributes' = [Attributes EXCEPT ![f] = a1]
                /\ Data' = Data
                /\ ret' = [op |-> "Setattr", err |-> r.err, node |-> f, req |-> req]
           ELSE /\ Attributes' = [Attributes EXCEPT
                                    ![f] = [a1 EXCEPT !.Size = req.Size, !.Mtime = now]]
                /\ Data' = [Data EXCEPT ![f] = r.data]
                /\ ret' = [op |-> "Setattr", err |-> "OK", node |-> f, req |-> req]
    /\ UNCHANGED <<kind, Children, inodeCounter, disk, tmp, pc, save, thr>>

\* File.Read (file.go:133-155): the bytes returned, or "PANIC" when the slice
\* expression of line 153 is out of range.
ReadData(s, off, size) ==
    IF off >= s.len
    THEN [err |-> "OK", data |-> <<>>]
    ELSE LET offset == ToInt64(off)
             end0 == ToInt64(offset + size)
             end == IF end0 > s.len THEN s.len ELSE end0
         IN  IF offset < 0 \/ end < offset
             THEN [err |-> "PANIC", data |-> <<>>]
             ELSE [err |-> "OK", data |-> SubSeq(s.arr, offset + 1, end)]

File_Read(f, off, size) ==
    /\ kind[f] = "file"
    /\ LET r == ReadData(Data[f], off, size)
       IN  ret' = [op |-> "Read", err |-> r.err, node |-> f, off |-> off,
                   size |-> size, data |-> r.data]
    /\ UNCHANGED <<heapVars, inodeCounter, disk, tmp, pc, save, thr>>

\* file.go:165-166
WriteNewSize(off, reqLen) == (ToUint64(off) + reqLen) % UintMod

\* A size test that lets a write end one byte past the maximum.
WriteTooLarge_OffByOne(off, reqLen) == WriteNewSize(off, reqLen) > MAX_FILE_SIZE + 1

\* file.go:168
WriteTooLarge(off, reqLen) == WriteNewSize(off, reqLen) > MAX_FILE_SIZE

\* file.go:172-189: the buffer before the copy of line 191; "PANIC" when the
\* slice expression of line 188 exceeds the capacity.
WriteResize(s, off, reqLen) ==
    LET newSize == WriteNewSize(off, reqLen)
        fileLen == s.len
        newCapacity == Min(MAX_FILE_SIZE,
                           IF newSize < fileLen * 2 THEN fileLen * 2 ELSE newSize)
        upto == ToInt64(off + reqLen)
    IN  IF newSize > fileLen
        THEN [err |-> "OK",
              data |-> [arr |-> Copy(Zeros(newCapacity), Bytes(s)), len |-> newSize]]
        ELSE IF upto > s.len
             THEN IF upto > Len(s.arr)
                  THEN [err |-> "PANIC", data |-> s]
                  ELSE [err |-> "OK", data |-> [s EXCEPT !.len = upto]]
             ELSE [err |-> "OK", data |-> s]

\* file.go:191: copy(file.Data[req.Offset:], req.Data); out of range when the
\* offset is negative or beyond the length.
WriteCopy(s, off, bytes) ==
    IF off < 0 \/ off > s.len
    THEN [err |-> "PANIC", data |-> s]
    ELSE [err |-> "OK", data |-> [s EXCEPT !.arr = CopyAt(s.arr, s.len, off, bytes)]]

\* File.Write (file.go:157-198).  A panic leaves what was assigned before it:
\* the deferred Unlock runs and the serve loop answers the request with an error.
File_Write(f, off, bytes, now) ==
    /\ kind[f] = "file"
    /\ LET reqLen == Len(bytes)
           r1 == WriteResize(Data[f], off, reqLen)
           r2 == WriteCopy(r1.data, off, bytes)
           w == [op |-> "Write", node |-> f, off |-> off, data |-> bytes]
       IN  IF WriteTooLarge(off, reqLen)
           THEN /\ ret' = w @@ [err |-> "EFBIG"]
                /\ UNCHANGED <<Attributes, Data>>
           ELSE IF r1.err # "OK"
           THEN /\ ret' = w @@ [err |-> "PANIC"]
                /\ UNCHANGED <<Attributes, Data>>
           ELSE IF r2.err # "OK"
           THEN /\ ret' = w @@ [err |-> "PANIC"]
                /\ Data' = [Data EXCEPT ![f] = r1.data]
                /\ UNCHANGED Attributes
           ELSE /\ ret' = w @@ [err |-> "OK"]
                /\ Data' = [Data EXCEPT ![f] = r2.data]
                /\ Attributes' = [Attributes EXCEPT
                                    ![f] = [@ EXCEPT !.Size = r2.data.len,
                                                     !.Mtime = now]]
    /\ UNCHANGED <<kind, Children, inodeCounter, disk, tmp, pc, save, thr>>

----------------------------------------------------------------------------
\* Dir (node.go).

\* sync.RWMutex of a directory.  SaveData holds the root's read lock from
\* serialization.go:57 until it returns, SerializeDir the read lock of every
\* directory on its call stack; a Rename in progress holds the write locks in
\* thr[g].held.  A Rename whose Lock found readers inside has announced itself
\* and waits for them to leave (thr[g].queued): from then on the mutex admits
\* no new reader and no other writer.
RLockedBySave(d) ==
    \/ save.held /\ d = RootId
    \/ \E i \in 1..Len(save.stack) : save.stack[i].dir = d

LockedByRename(d) == \E g \in DOMAIN thr : d \in thr[g].held

QueuedByRename(d) == \E g \in DOMAIN thr : thr[g].queued = d

CanLock(d) == ~RLockedBySave(d) /\ ~LockedByRename(d) /\ ~QueuedByRename(d)

CanRLock(d) == ~LockedByRename(d) /\ ~QueuedByRename(d)

\* filepath.Base: trailing separators are stripped, then the last element is
\* taken; "" gives "." and a name of separators only gives the separator.
RECURSIVE StripTrailing(_)
StripTrailing(name) ==
    IF Len(name) > 0 /\ name[Len(name)] = Sep
    THEN StripTrailing(SubSeq(name, 1, Len(name) - 1))
    ELSE name

LastElement(name) ==
    LET seps == {i \in 1..Len(name) : name[i] = Sep}
        i == IF seps = {} THEN 0 ELSE CHOOSE k \in seps : \A j \in seps : j <= k
    IN  SubSeq(name, i + 1, Len(name))

Base(name) ==
    IF name = <<>> THEN <<".">>
    ELSE LET e == LastElement(StripTrailing(name))
         IN  IF e = <<>> THEN <<Sep>> ELSE e

\* node.go:354-362, the test Rename makes of each of its two names.
RenameNameInvalid(name) ==
    name # Base(name) \/ name = <<".", ".">> \/ name = <<".">>

\* A write test that looks at the bit of the others whoever calls.
hasWritePermission_OtherBit(uid, gid, attr) == HasBit(attr.Mode, 2)

\* hasWritePermission (node.go:105-113)
hasWritePermission(uid, gid, attr) ==
    IF uid = attr.Uid THEN HasBit(attr.Mode, 128)
    ELSE IF gid = attr.Gid THEN HasBit(attr.Mode, 16)
    ELSE HasBit(attr.Mode, 2)

\* A Create that does not test the execute bit.
hasExecPermission_Skipped(uid, gid, attr) == TRUE

\* node.go:207-219: the execute bit of the triad that applies.
hasExecPermission(uid, gid, attr) ==
    IF uid = attr.Uid THEN HasBit(attr.Mode, 64)
    ELSE IF gid = attr.Gid THEN HasBit(attr.Mode, 8)
    ELSE HasBit(attr.Mode, 1)

\* node.go:190-219
CreateAllowed(uid, gid, attr) ==
    hasWritePermission(uid, gid, attr) /\ hasExecPermission(uid, gid, attr)

\* An ownership test that compares the uid alone.
IsOwner_UidOnly(uid, gid, attr) == uid = attr.Uid

\* node.go:259-265 and 334-340
IsOwner(uid, gid, attr) == uid = attr.Uid /\ gid = attr.Gid

\* GetInodeAndIncrease (node.go:24-31) inside a handler: the counter moves, and
\* the handler goes on only when the new value is not zero.
NewFileAttr(inode, mode, uid, gid, now) ==
    [Inode |-> inode, Size |-> 0, Atime |-> now, Mtime |-> now, Ctime |-> now,
     Mode |-> Perm(mode), Uid |-> uid, Gid |-> gid]

NewDirAttr(inode, mode, uid, gid, now) ==
    [Inode |-> inode, Size |-> 0, Atime |-> now, Mtime |-> now, Ctime |-> now,
     Mode |-> ModeDir + (Perm(mode) % 512), Uid |-> uid, Gid |-> gid]

Touch(attr, now) == [attr EXCEPT !.Mtime = now, !.Ctime = now]

\* The values of the counter the model explores: from the cold start up to
\* MaxInode, and the last ones before the counter wraps.
CounterExplored == inodeCounter < MaxInode \/ inodeCounter >= UintMod - MaxNodes

\* The part of Create and Mkdir after their checks (node.go:221-240, 267-288).
Insert(d, name, k, attr) ==
    LET new == AddUint64(inodeCounter)
        n == NewNode
    IN  /\ HasRoom
        /\ CounterExplored
        /\ inodeCounter' = new
        /\ IF new = 0
           THEN UNCHANGED heapVars
           ELSE /\ kind' = [kind EXCEPT ![n] = k]
                /\ Attributes' = [Attributes EXCEPT
                                    ![n] = [attr EXCEPT !.Inode = new],
                                    ![d] = Touch(@, attr.Mtime)]
                /\ Children' = [Children EXCEPT ![d] = Put(@, name, n), ![n] = EmptyMap]
                /\ Data' = [Data EXCEPT ![n] = EmptySlice]

Fail(op, err) ==
    /\ ret' = [op |-> op, err |-> err]
    /\ UNCHANGED <<heapVars, inodeCounter>>

\* Dir.Create (node.go:173-241)
Dir_Create(d, name, uid, gid, mode, now) ==
    /\ kind[d] = "dir"
    /\ CanLock(d)
    /\ IF ValidateName(name) # "OK" THEN Fail("Create", "EINVAL")
       ELSE IF name \in DOMAIN Children[d] THEN Fail("Create", "EEXIST")
       ELSE IF ~CreateAllowed(uid, gid, Attributes[d]) THEN Fail("Create", "EACCES")
       ELSE /\ Insert(d, name, "file", NewFileAttr(0, mode, uid, gid, now))
            /\ ret' = [op |-> "Create",
                       err |-> IF inodeCounter' = 0 THEN "PANIC" ELSE "OK"]
    /\ UNCHANGED <<disk, tmp, pc, save, thr>>

\* Dir.Mkdir (node.go:243-289)
Dir_Mkdir(d, name, uid, gid, mode, now) ==
    /\ kind[d] = "dir"
    /\ CanLock(d)
    /\ IF ValidateName(name) # "OK" THEN Fail("Mkdir", "EINVAL")
       ELSE IF name \in DOMAIN Children[d] THEN Fail("Mkdir", "EEXIST")
       ELSE IF ~IsOwner(uid, gid, Attributes[d]) THEN Fail("Mkdir", "EPERM")
       ELSE /\ Insert(d, name, "dir", NewDirAttr(0, mode, uid, gid, now))
            /\ ret' = [op |-> "Mkdir",
                       err |-> IF inodeCounter' = 0 THEN "PANIC" ELSE "OK"]
    /\ UNCHANGED <<disk, tmp, pc, save, thr>>

\* Dir.Remove (node.go:318-347)
Dir_Remove(d, name, uid, gid, now) ==
    /\ kind[d] = "dir"
    /\ CanLock(d)
    /\ IF ValidateName(name) # "OK" THEN Fail("Remove", "EINVAL")
       ELSE IF name \notin DOMAIN Children[d] THEN Fail("Remove", "ENOENT")
       ELSE IF ~IsOwner(uid, gid, Attributes[d]) THEN Fail("Remove", "EPERM")
       ELSE /\ Children' = [Children EXCEPT ![d] = Del(@, name)]
            /\ Attributes' = [Attributes EXCEPT ![d] = Touch(@, now)]
            /\ ret' = [op |-> "Remove", err |-> "OK"]
            /\ UNCHANGED <<kind, Data, inodeCounter>>
    /\ UNCHANGED <<disk, tmp, pc, save, thr>>

\* node.go:393-407, the part of Rename under its locks: the children of every
\* directory after the move.
RenameMove(d, oldName, t, newName) ==
    LET child == Children[d][oldName]
        c1 == [Children EXCEPT ![t] = Del(@, newName)]
        c2 == [c1 EXCEPT ![d] = Del(@, oldName)]
    IN  [c2 EXCEPT ![t] = Put(@, newName, child)]

RenameTouch(d, t, now) ==
    [Attributes EXCEPT ![d] = Touch(@, now), ![t] = Touch(@, now)]

\* Dir.Rename (node.go:349-410) as one step.
Dir_Rename(d, oldName, t, newName, uid, gid, now) ==
    /\ kind[d] = "dir"
    /\ kind[t] # "none"
    /\ IF RenameNameInvalid(newName) \/ RenameNameInvalid(oldName)
       THEN Fail("Rename", "EINVAL")
       ELSE IF kind[t] # "dir" THEN Fail("Rename", "EINVAL")
       ELSE IF \/ ~hasWritePermission(uid, gid, Attributes[d])
               \/ ~hasWritePermission(uid, gid, Attributes[t])
       THEN Fail("Rename", "EACCES")
       ELSE IF ~(CanLock(d) /\ CanLock(t)) THEN FALSE
       ELSE IF oldName \notin DOMAIN Children[d] THEN Fail("Rename", "ENOENT")
       ELSE /\ Children' = RenameMove(d, oldName, t, newName)
            /\ Attributes' = RenameTouch(d, t, now)
            /\ ret' = [op |-> "Rename", err |-> "OK"]
            /\ UNCHANGED <<kind, Data, inodeCounter>>
    /\ UNCHANGED <<disk, tmp, pc, save, thr>>

\* Dir.Rename step by step, for the goroutine g that serves the request.

IdleThread ==
    [pc |-> "idle", d |-> 0, t |-> 0, oldName |-> <<>>, newName |-> <<>>,
     first |-> 0, second |-> 0, held |-> {}, queued |-> 0]

\* A Rename that locks its own directory first and the target second.
LockOrder_AsGiven(d, t) == <<d, t>>

\* node.go:381-384: first and second.
LockOrder(d, t) ==
    IF Attributes[d].Inode > Attributes[t].Inode THEN <<t, d>> ELSE <<d, t>>

\* node.go:354-384: the checks made before any lock is taken.
Rename_Call(g, d, oldName, t, newName, uid, gid) ==
    /\ thr[g].pc = "idle"
    /\ kind[d] = "dir"
    /\ kind[t] # "none"
    /\ IF RenameNameInvalid(newName) \/ RenameNameInvalid(oldName)
       THEN Fail("Rename", "EINVAL") /\ UNCHANGED thr
       ELSE IF kind[t] # "dir" THEN Fail("Rename", "EINVAL") /\ UNCHANGED thr
       ELSE IF \/ ~hasWritePermission(uid, gid, Attributes[d])
               \/ ~hasWritePermission(uid, gid, Attributes[t])
       THEN Fail("Rename", "EACCES") /\ UNCHANGED thr
       ELSE /\ thr' = [thr EXCEPT ![g] =
                     [pc |-> "lock1", d |-> d, t |-> t, oldName |-> oldName,
                      newName |-> newName, first |-> LockOrder(d, t)[1],
                      second |-> LockOrder(d, t)[2], held |-> {}, queued |-> 0]]
            /\ UNCHANGED <<heapVars, inodeCounter, ret>>
    /\ UNCHANGED <<disk, tmp, pc, save>>

\* The lock the Rename of g is about to take.
Wanted(g) == IF thr[g].pc = "lock1" THEN thr[g].first ELSE thr[g].second

\* Lock returns to g: the mutex is free, or g is the writer that waited for
\* the readers and the last of them has left.
LockReturns(g, d) ==
    \/ CanLock(d)
    \/ thr[g].queued = d /\ ~RLockedBySave(d)

\* node.go:386-390: Lock is called while readers hold the mutex and no writer
\* does; the call announces the writer and blocks.
Rename_Queue(g) ==
    /\ thr[g].pc \in {"lock1", "lock2"}
    /\ thr[g].queued = 0
    /\ RLockedBySave(Wanted(g))
    /\ ~LockedByRename(Wanted(g))
    /\ ~QueuedByRename(Wanted(g))
    /\ thr' = [thr EXCEPT ![g].queued = Wanted(g)]
    /\ UNCHANGED <<heapVars, inodeCounter, disk, tmp, pc, ret, save>>

\* node.go:386-388
Rename_Lock1(g) ==
    /\ thr[g].pc = "lock1"
    /\ LockReturns(g, thr[g].first)
    /\ thr' = [thr EXCEPT ![g].held = {thr[g].first},
                          ![g].queued = 0,
                          ![g].pc = IF thr[g].first # thr[g].second
                                    THEN "lock2" ELSE "body"]
    /\ UNCHANGED <<heapVars, inodeCounter, disk, tmp, pc, ret, save>>

\* node.go:389-390
Rename_Lock2(g) ==
    /\ thr[g].pc = "lock2"
    /\ LockReturns(g, thr[g].second)
    /\ thr' = [thr EXCEPT ![g].held = @ \cup {thr[g].second},
                          ![g].queued = 0,
                          ![g].pc = "body"]
    /\ UNCHANGED <<heapVars, inodeCounter, disk, tmp, pc, ret, save>>

\* node.go:393-409 and the deferred unlocks.
Rename_Body(g) ==
    /\ thr[g].pc = "body"
    /\ LET c == thr[g]
       IN  IF c.oldName \notin DOMAIN Children[c.d]
           THEN Fail("Rename", "ENOENT")
           ELSE /\ Children' = RenameMove(c.d, c.oldName, c.t, c.newName)
                /\ Attributes' = RenameTouch(c.d, c.t, Now)
                /\ ret' = [op |-> "Rename", err |-> "OK"]
                /\ UNCHANGED <<kind, Data, inodeCounter>>
    /\ thr' = [thr EXCEPT ![g] = IdleThread]
    /\ UNCHANGED <<disk, tmp, pc, save>>

\* Dir.Setattr (node.go:115-145)
Dir_Setattr(d, req) ==
    /\ kind[d] = "dir"
    /\ CanRLock(d)
    /\ Attributes' = [Attributes EXCEPT ![d] = ApplyCommon(@, req)]
    /\ ret' = [op |-> "Setattr", err |-> "OK", node |-> d, req |-> req]
    /\ UNCHANGED <<kind, Children, Data, inodeCounter, disk, tmp, pc, save, thr>>

\* Dir.Attr (node.go:97-103): the attributes are copied with no lock taken.
Dir_Attr(d) ==
    /\ kind[d] = "dir"
    /\ ret' = [op |-> "Attr", err |-> "OK", node |-> d, attr |-> Attributes[d]]
    /\ UNCHANGED <<heapVars, inodeCounter, disk, tmp, pc, save, thr>>

----------------------------------------------------------------------------
\* Snapshot codec (serialization.go:120-170).

Nil == [nil |-> TRUE]

\* A mirror of a file that leaves its bytes out.
SerializeFile_NoData(n) ==
    [Type |-> "file", Dir |-> Nil,
     File |-> [Attributes |-> Attributes[n], Data |-> <<>>]]

\* serialization.go:137-143
SerializeFile(n) ==
    [Type |-> "file", Dir |-> Nil,
     File |-> [Attributes |-> Attributes[n], Data |-> Bytes(Data[n])]]

\* serialization.go:131-135, once the recursive call has returned sd.
SerializeSubdir(sd) == [Type |-> "dir", Dir |-> sd, File |-> Nil]

\* serialization.go:121-127: the frame of one SerializeDir call; name is the
\* key under which the caller will store the result, file the record of a
\* file child of which one field has been read.
SerializeEnter(n, name) ==
    [dir |-> n, name |-> name,
     sd |-> [Attributes |-> Attributes[n], Children |-> EmptyMap],
     todo |-> DOMAIN Children[n], file |-> Nil]

\* SerializeDir (serialization.go:120-148) run without interruption.
RECURSIVE SerializeDir(_)
SerializeDir(n) ==
    [Attributes |-> Attributes[n],
     Children |-> [name \in DOMAIN Children[n] |->
        IF kind[Children[n][name]] = "dir"
        THEN SerializeSubdir(SerializeDir(Children[n][name]))
        ELSE SerializeFile(Children[n][name])]]

\* serialization.go:60-64
Envelope(root, counter) ==
    [Version |-> X25FS_VERSION, RootDir |-> root, InodeCounter |-> counter]

EmptyHeap ==
    [kind |-> [n \in NodeIds |-> "none"],
     Attributes |-> [n \in NodeIds |-> ZeroAttr],
     Children |-> [n \in NodeIds |-> EmptyMap],
     Data |-> [n \in NodeIds |-> EmptySlice]]

FreeIn(h) ==
    CHOOSE n \in NodeIds : h.kind[n] = "none" /\ \A m \in 1..(n - 1) : h.kind[m] # "none"

\* serialization.go:163-166
DeserializeFile(sf) ==
    [Attributes |-> sf.Attributes, Data |-> [arr |-> sf.Data, len |-> Len(sf.Data)]]

\* DeserializeDir (serialization.go:150-170) over a heap h: the heap with the
\* new objects and the id of the new *Dir.
RECURSIVE DeserializeDir(_, _)
RECURSIVE DeserializeChildren(_, _, _, _)
DeserializeDir(sd, h) ==
    LET d == FreeIn(h)
        h1 == [h EXCEPT !.kind[d] = "dir", !.Attributes[d] = sd.Attributes]
    IN  [id |-> d, heap |-> DeserializeChildren(sd.Children, DOMAIN sd.Children, d, h1)]

DeserializeChildren(ch, todo, d, h) ==
    IF todo = {} THEN h
    ELSE LET name == CHOOSE x \in todo : TRUE
             node == ch[name]
             rest == todo \ {name}
         IN  IF node.Type = "dir"
             THEN LET r == DeserializeDir(node.Dir, h)
                  IN  DeserializeChildren(ch, rest, d,
                          [r.heap EXCEPT !.Children[d] = Put(@, name, r.id)])
             ELSE IF node.Type = "file"
             THEN LET f == FreeIn(h)
                      file == DeserializeFile(node.File)
                  IN  DeserializeChildren(ch, rest, d,
                          [h EXCEPT !.kind[f] = "file",
                                    !.Attributes[f] = file.Attributes,
                                    !.Data[f] = file.Data,
                                    !.Children[d] = Put(@, name, f)])
             ELSE DeserializeChildren(ch, rest, d, h)

----------------------------------------------------------------------------
\* The image: msgpack over the envelope, then the encryption provider.

NoFile == <<>>

\* msgpack.Marshal / msgpack.Unmarshal of SerializableX25fs: the three fields
\* in the order of the struct.
MsgpackMarshal(sxfs) == <<sxfs.Version, sxfs.RootDir, sxfs.InodeCounter>>

MsgpackUnmarshal(buf) ==
    [Version |-> buf[1], RootDir |-> buf[2], InodeCounter |-> buf[3]]

\* cfg.Marshall / cfg.Unmarshall: an opaque invertible transform; a sealed
\* payload is a header followed by the plain bytes, and Unmarshall rejects
\* anything that is not a whole sealed payload.
Sealed == "xbin25"

Marshall(buf) == <<Sealed>> \o buf

UnmarshallOk(enc) == Len(enc) = 4 /\ enc[1] = Sealed

Unmarshall(enc) == Tail(enc)

\* A LoadData that seeds the counter before it compares the versions.
LoadData_SeedFirst(c, encrypted) ==
    IF ~UnmarshallOk(encrypted)
    THEN [err |-> "decrypt", counter |-> c, heap |-> EmptyHeap, version |-> 0]
    ELSE LET sxfs == MsgpackUnmarshal(Unmarshall(encrypted))
         IN  IF sxfs.Version # X25FS_VERSION
             THEN [err |-> "version",
                   counter |-> LoadInodeCounter(c, sxfs.InodeCounter),
                   heap |-> EmptyHeap, version |-> sxfs.Version]
             ELSE [err |-> "OK",
                   counter |-> LoadInodeCounter(c, sxfs.InodeCounter),
                   heap |-> DeserializeDir(sxfs.RootDir, EmptyHeap).heap,
                   version |-> sxfs.Version]

\* LoadData (serialization.go:83-118) of the bytes of the disk file, with
\* counter c: the error, the counter afterwards and the tree returned.
LoadData(c, encrypted) ==
    IF ~UnmarshallOk(encrypted)
    THEN [err |-> "decrypt", counter |-> c, heap |-> EmptyHeap, version |-> 0]
    ELSE LET sxfs == MsgpackUnmarshal(Unmarshall(encrypted))
         IN  IF sxfs.Version # X25FS_VERSION
             THEN [err |-> "version", counter |-> c, heap |-> EmptyHeap,
                   version |-> sxfs.Version]
             ELSE [err |-> "OK",
                   counter |-> LoadInodeCounter(c, sxfs.InodeCounter),
                   heap |-> DeserializeDir(sxfs.RootDir, EmptyHeap).heap,
                   version |-> sxfs.Version]

----------------------------------------------------------------------------
\* SaveData (serialization.go:56-81), one step per lock, per child visited and
\* per write to the file system.

IdleSave ==
    [pc |-> "idle", held |-> FALSE, stack |-> <<>>, root |-> Nil, counter |-> 0,
     buf |-> <<>>, enc |-> <<>>, err |-> "OK"]

\* A SaveData that reads the counter before it walks the tree.
SaveOrder_CounterFirst ==
    <<"counter", "serialize", "marshal", "encrypt", "write", "return">>

\* serialization.go:60-80: the order of the steps of SaveData.  In the literal
\* of lines 60-64 the call of SerializeDir comes before CurrentInodeCounter.
SaveOrder == <<"serialize", "counter", "marshal", "encrypt", "write", "return">>

After(p) == SaveOrder[(CHOOSE i \in 1..Len(SaveOrder) : SaveOrder[i] = p) + 1]

Top == save.stack[Len(save.stack)]

SetTop(stack, frame) == [stack EXCEPT ![Len(stack)] = frame]

\* The tree of a heap h as a set of (path, node) facts, read off along the
\* children maps; paths longer than the heap has objects are cut.
RECURSIVE ViewOf(_, _, _)
ViewOf(h, n, path) ==
    {[path |-> path, kind |-> h.kind[n], attr |-> h.Attributes[n],
      data |-> IF h.kind[n] = "file" THEN Bytes(h.Data[n]) ELSE <<>>]}
    \cup (IF h.kind[n] = "dir" /\ Len(path) < MaxNodes
          THEN UNION {ViewOf(h, h.Children[n][k], Append(path, k)) :
                        k \in DOMAIN h.Children[n]}
          ELSE {})

Heap == [kind |-> kind, Attributes |-> Attributes, Children |-> Children, Data |-> Data]

TreeView == ViewOf(Heap, RootId, <<>>)

\* serialization.go:57
Save_Begin ==
    /\ pc = "serving"
    /\ save.pc = "idle"
    /\ CanRLock(RootId)
    /\ save' = [IdleSave EXCEPT !.pc = SaveOrder[1], !.held = TRUE]
    /\ UNCHANGED <<heapVars, inodeCounter, disk, tmp, pc, ret, thr>>

\* serialization.go:61 and 121-127: SerializeDir(xfs.RootDir) is entered.
Serialize_Root ==
    /\ save.pc = "serialize"
    /\ save.stack = <<>>
    /\ save.root = Nil
    /\ CanRLock(RootId)
    /\ save' = [save EXCEPT !.stack = <<SerializeEnter(RootId, <<>>)>>]
    /\ UNCHANGED <<heapVars, inodeCounter, disk, tmp, pc, ret, thr>>

\* serialization.go:129-145: one iteration of the range over the children; a
\* directory child is entered (its read lock taken).  A file child is read
\* with no lock of its own (lines 137-143): n.Attributes and n.Data are two
\* loads that nothing orders against the handlers of the file, so one of the
\* two fields is read here and the other in Serialize_File.
Serialize_Child ==
    /\ save.pc = "serialize"
    /\ save.stack # <<>>
    /\ Top.file = Nil
    /\ \E name \in Top.todo :
        LET child == Children[Top.dir][name]
            rest == [Top EXCEPT !.todo = @ \ {name}]
        IN  IF kind[child] = "dir"
            THEN /\ CanRLock(child)
                 /\ save' = [save EXCEPT
                       !.stack = Append(SetTop(@, rest), SerializeEnter(child, name))]
            ELSE \E got \in {"Attributes", "Data"} :
                    save' = [save EXCEPT
                       !.stack = SetTop(@, [rest EXCEPT
                           !.file = [name |-> name, node |-> child, got |-> got,
                                     rec |-> SerializeFile(child)]])]
    /\ UNCHANGED <<heapVars, inodeCounter, disk, tmp, pc, ret, thr>>

\* serialization.go:139-142: the other field of the file is read and the
\* record is stored under the child's name.
Serialize_File ==
    /\ save.pc = "serialize"
    /\ save.stack # <<>>
    /\ Top.file # Nil
    /\ LET p == Top.file
           rec == IF p.got = "Attributes"
                  THEN [p.rec EXCEPT !.File.Data = Bytes(Data[p.node])]
                  ELSE [p.rec EXCEPT !.File.Attributes = Attributes[p.node]]
       IN  save' = [save EXCEPT
                       !.stack = SetTop(@, [Top EXCEPT
                           !.file = Nil,
                           !.sd.Children = Put(@, p.name, rec)])]
    /\ UNCHANGED <<heapVars, inodeCounter, disk, tmp, pc, ret, thr>>

\* serialization.go:147 (and the deferred RUnlock of line 122)
Serialize_Return ==
    /\ save.pc = "serialize"
    /\ save.stack # <<>>
    /\ Top.todo = {}
    /\ Top.file = Nil
    /\ LET below == SubSeq(save.stack, 1, Len(save.stack) - 1)
       IN  IF below = <<>>
           THEN save' = [save EXCEPT !.stack = <<>>, !.root = Top.sd,
                                    !.pc = After("serialize")]
           ELSE save' = [save EXCEPT
                   !.stack = SetTop(below, [below[Len(below)] EXCEPT
                       !.sd.Children = Put(@, Top.name, SerializeSubdir(Top.sd))])]
    /\ UNCHANGED <<heapVars, inodeCounter, disk, tmp, pc, ret, thr>>

\* serialization.go:62
Save_Counter ==
    /\ save.pc = "counter"
    /\ save' = [save EXCEPT !.counter = CurrentInodeCounter(inodeCounter),
                            !.pc = After("counter")]
    /\ UNCHANGED <<heapVars, inodeCounter, disk, tmp, pc, ret, thr>>

\* serialization.go:60-69
Save_Marshal ==
    /\ save.pc = "marshal"
    /\ \/ save' = [save EXCEPT
             !.buf = MsgpackMarshal(Envelope(save.root, save.counter)),
             !.pc = After("marshal")]
       \/ save' = [save EXCEPT !.err = "msgpack encode failed", !.pc = "return"]
    /\ UNCHANGED <<heapVars, inodeCounter, disk, tmp, pc, ret, thr>>

\* serialization.go:71-74
Save_Encrypt ==
    /\ save.pc = "encrypt"
    /\ \/ save' = [save EXCEPT !.enc = Marshall(save.buf), !.pc = After("encrypt")]
       \/ save' = [save EXCEPT !.err = "encryption failed", !.pc = "return"]
    /\ UNCHANGED <<heapVars, inodeCounter, disk, tmp, pc, ret, thr>>

\* A write that truncates the target and fills it in place.
WriteChunk_InPlace ==
    /\ Len(tmp) < Len(save.enc)
    /\ tmp' = SubSeq(save.enc, 1, Len(tmp) + 1)
    /\ disk' = SubSeq(save.enc, 1, Len(tmp) + 1)

\* serialization.go:76, renameio.WriteFile: the bytes go to a temporary file
\* next to the target, one piece at a time.
WriteChunk ==
    /\ Len(tmp) < Len(save.enc)
    /\ tmp' = SubSeq(save.enc, 1, Len(tmp) + 1)
    /\ UNCHANGED disk

Save_Write ==
    /\ save.pc = "write"
    /\ WriteChunk
    /\ UNCHANGED <<heapVars, inodeCounter, pc, ret, save, thr>>

\* renameio.WriteFile fails (the temporary file is removed).
Save_WriteFail ==
    /\ save.pc = "write"
    /\ tmp' = NoFile
    /\ save' = [save EXCEPT !.err = "atomic write failed", !.pc = "return"]
    /\ UNCHANGED <<heapVars, inodeCounter, disk, pc, ret, thr>>

\* renameio.WriteFile: the complete temporary file is renamed over the target.
Save_Rename ==
    /\ save.pc = "write"
    /\ tmp = save.enc
    /\ disk' = tmp
    /\ tmp' = NoFile
    /\ save' = [save EXCEPT !.pc = After("write")]
    /\ UNCHANGED <<heapVars, inodeCounter, pc, ret, thr>>

\* serialization.go:58 (deferred) and 68, 73, 77, 80; main.go:198
Save_Return ==
    /\ save.pc = "return"
    /\ save' = IdleSave
    /\ ret' = [op |-> "SaveData", err |-> save.err]
    /\ pc' = "saved"
    /\ UNCHANGED <<heapVars, inodeCounter, disk, tmp, thr>>

SaveStep ==
    \/ Save_Begin
    \/ Serialize_Root
    \/ Serialize_Child
    \/ Serialize_File
    \/ Serialize_Return
    \/ Save_Counter
    \/ Save_Marshal
    \/ Save_Encrypt
    \/ Save_Write
    \/ Save_WriteFail
    \/ Save_Rename
    \/ Save_Return

\* The steps of SaveData over a tree that holds directories only.
SaveDirsStep ==
    \/ Save_Begin
    \/ Serialize_Root
    \/ Serialize_Child
    \/ Serialize_Return
    \/ Save_Counter
    \/ Save_Marshal
    \/ Save_Encrypt
    \/ Save_Write
    \/ Save_WriteFail
    \/ Save_Rename
    \/ Save_Return

----------------------------------------------------------------------------
\* main (main.go:111-213) and the life of the disk image across process runs.

\* main.go:130-141: the root of a cold start, owned by the invoking user.
FreshRoot ==
    [EmptyHeap EXCEPT
        !.kind[RootId] = "dir",
        !.Attributes[RootId] = [ZeroAttr EXCEPT !.Inode = 1, !.Mode = ModeDir + DirMode]]

SetHeapInit ==
    /\ kind = EmptyHeap.kind
    /\ Attributes = EmptyHeap.Attributes
    /\ Children = EmptyHeap.Children
    /\ Data = EmptyHeap.Data

SetHeap(h) ==
    /\ kind' = h.kind
    /\ Attributes' = h.Attributes
    /\ Children' = h.Children
    /\ Data' = h.Data

\* main.go:111-142: the image is loaded when the disk file exists.
Main_Start ==
    /\ pc = "start"
    /\ IF disk # NoFile
       THEN LET r == LoadData(inodeCounter, disk)
            IN  /\ SetHeap(r.heap)
                /\ inodeCounter' = r.counter
                /\ ret' = [op |-> "LoadData", err |-> r.err, version |-> r.version]
                /\ pc' = IF r.err = "OK" THEN "serving" ELSE "fatal"
       ELSE /\ SetHeap(FreshRoot)
            /\ ret' = [op |-> "main", err |-> "OK"]
            /\ pc' = "serving"
            /\ UNCHANGED inodeCounter
    /\ UNCHANGED <<disk, tmp, save, thr>>

\* main.go:180-198: the serving phase has ended and SaveData runs, alone, to
\* its end: the image replaces the disk file, or one of its three steps fails.
Main_Save ==
    /\ pc = "serving"
    /\ save.pc = "idle"
    /\ pc' = "saved"
    /\ \/ /\ disk' = Marshall(MsgpackMarshal(
                    Envelope(SerializeDir(RootId), CurrentInodeCounter(inodeCounter))))
                /\ ret' = [op |-> "SaveData", err |-> "OK"]
       \/ /\ \E e \in {"msgpack encode failed", "encryption failed", "atomic write failed"} :
                ret' = [op |-> "SaveData", err |-> e]
          /\ UNCHANGED disk
    /\ UNCHANGED <<heapVars, inodeCounter, tmp, save, thr>>

\* The process is gone: its memory with it.
ProcessEnds ==
    /\ pc' = "exited"
    /\ SetHeap(EmptyHeap)
    /\ inodeCounter' = 2
    /\ save' = IdleSave
    /\ tmp' = NoFile
    /\ UNCHANGED <<disk, thr>>

\* main.go:198-213, after SaveData has returned; main.go:115, log.Fatal.
Main_Exit ==
    /\ pc \in {"saved", "fatal"}
    /\ ProcessEnds
    /\ ret' = [op |-> "exit", err |-> IF ret.err = "OK" THEN "0" ELSE "1"]

\* The process is killed, or the machine stops, at any point.
Crash ==
    /\ pc \in {"start", "serving", "saved", "fatal"}
    /\ ProcessEnds
    /\ ret' = [op |-> "exit", err |-> "killed"]

\* The program is started again on the same disk path.
Main_Restart ==
    /\ pc = "exited"
    /\ pc' = "start"
    /\ UNCHANGED <<heapVars, inodeCounter, disk, tmp, ret, save, thr>>

----------------------------------------------------------------------------
\* The requests the life-cycle specification explores.

\* The caller of the requests: the owner of the root (uid and gid 0 here).
Owner == [uid |-> 0, gid |-> 0]


NoReq == [Valid |-> {}, Mode |-> 0, Uid |-> 0, Gid |-> 0, Atime |-> 0, Mtime |-> 0,
          Size |-> 0]

TreeDirReqs == {[NoReq EXCEPT !.Valid = {"Mode"}, !.Mode = ModeDir + 511]}

TreeFileReqs == {[NoReq EXCEPT !.Valid = {"Size"}, !.Size = 2]}

\* A foreign image on the disk path: written by a build with another format
\* version.
ForeignImage ==
    Marshall(MsgpackMarshal(
        [Version |-> X25FS_VERSION + 1,
         RootDir |-> [Attributes |-> FreshRoot.Attributes[RootId], Children |-> EmptyMap],
         InodeCounter |-> 5]))

NoThreads == [g \in {} |-> 0]

Init ==
    /\ SetHeapInit
    /\ inodeCounter = 2
    /\ disk \in {NoFile, ForeignImage}
    /\ tmp = NoFile
    /\ pc = "start"
    /\ ret = [op |-> "none", err |-> "OK"]
    /\ save = IdleSave
    /\ thr = NoThreads

Serve ==
    /\ pc = "serving"
    /\ save.pc = "idle"
    /\ \/ \E d \in Dirs, name \in ValidNames :
            Dir_Create(d, name, Owner.uid, Owner.gid, FileMode, Now)
       \/ \E d \in Dirs, name \in ValidNames :
            Dir_Mkdir(d, name, Owner.uid, Owner.gid, DirMode, Now)
       \/ \E d \in Dirs, name \in ValidNames :
            Dir_Remove(d, name, Owner.uid, Owner.gid, Now)
       \/ \E d \in Dirs, t \in Dirs \cup Files, o \in ValidNames, n \in ValidNames :
            Dir_Rename(d, o, t, n, Owner.uid, Owner.gid, Now)
       \/ \E req \in TreeDirReqs : Dir_Setattr(RootId, req)
       \/ \E f \in Files, req \in TreeFileReqs : File_Setattr(f, req, Now)
       \/ \E f \in Files : File_Write(f, 0, <<1>>, Now)

\* One run of the program, from its start to its exit.
Next ==
    \/ Main_Start
    \/ Serve
    \/ Main_Save
    \/ Main_Exit

Spec == Init /\ [][Next]_vars

----------------------------------------------------------------------------
\* Runs of the program one after the other on the same disk path, each ended
\* by its save or killed.

ServeRuns ==
    /\ pc = "serving"
    /\ save.pc = "idle"
    /\ \/ \E d \in Dirs : Dir_Create(d, NameB, Owner.uid, Owner.gid, FileMode, Now)
       \/ \E d \in Dirs : Dir_Mkdir(d, NameA, Owner.uid, Owner.gid, DirMode, Now)
       \/ \E d \in Dirs, name \in ValidNames :
            Dir_Remove(d, name, Owner.uid, Owner.gid, Now)
       \/ \E d \in Dirs, t \in Dirs, o \in ValidNames :
            Dir_Rename(d, o, t, o, Owner.uid, Owner.gid, Now)
       \/ \E req \in TreeDirReqs : Dir_Setattr(RootId, req)

NextRuns ==
    \/ Main_Start
    \/ ServeRuns
    \/ Main_Save
    \/ Main_Exit
    \/ Crash
    \/ Main_Restart

SpecRuns == Init /\ [][NextRuns]_vars

----------------------------------------------------------------------------
\* SaveData step by step, with Create and Mkdir calls of the owner running
\* next to it, over runs of the program that end by exit or by a kill.

ServeSave ==
    /\ pc = "serving"
    /\ \/ \E d \in Dirs, name \in ValidNames :
            Dir_Create(d, name, Owner.uid, Owner.gid, FileMode, Now)
       \/ \E d \in Dirs, name \in ValidNames :
            Dir_Mkdir(d, name, Owner.uid, Owner.gid, DirMode, Now)

NextSave ==
    \/ Main_Start
    \/ ServeSave
    \/ SaveStep
    \/ Main_Exit
    \/ Crash
    \/ Main_Restart

SpecSave == Init /\ [][NextSave]_vars

----------------------------------------------------------------------------
\* Rename calls served by two goroutines at once, on a tree the owner makes
\* with Mkdir.

Goroutines == {1, 2}

InitLock ==
    /\ SetHeapInit
    /\ inodeCounter = 2
    /\ disk = NoFile
    /\ tmp = NoFile
    /\ pc = "start"
    /\ ret = [op |-> "none", err |-> "OK"]
    /\ save = IdleSave
    /\ thr = [g \in Goroutines |-> IdleThread]

ServeLock ==
    /\ pc = "serving"
    /\ \/ \E name \in ValidNames :
            Dir_Mkdir(RootId, name, Owner.uid, Owner.gid, DirMode, Now)
       \/ \E g \in Goroutines, d \in Dirs, t \in Dirs :
            Rename_Call(g, d, NameA, t, NameA, Owner.uid, Owner.gid)
       \/ \E g \in Goroutines : Rename_Lock1(g)
       \/ \E g \in Goroutines : Rename_Lock2(g)
       \/ \E g \in Goroutines : Rename_Body(g)

NextLock ==
    \/ Main_Start
    \/ ServeLock

SpecLock == InitLock /\ [][NextLock]_vars

----------------------------------------------------------------------------
\* One file under the root, and the requests of the transport on it: offsets
\* over the whole range of int64 (its ends, the values around zero and around
\* the maximum size), sizes over the whole range of uint64.

MaxWrite == 2        \* longest req.Data explored

Offsets == {-(IntMax + 1), -1, IntMax} \cup 0..(MAX_FILE_SIZE + 1)

\* req.Data: up to MaxWrite bytes, all zero or all one.
WriteData == {[i \in 1..n |-> b] : n \in 0..MaxWrite, b \in Byte}

Sizes == 0..(MAX_FILE_SIZE + 1) \cup {IntMax + 1, UintMod - 1}

FileReqs ==
    {[NoReq EXCEPT !.Valid = v, !.Mode = 292, !.Mtime = 1, !.Size = sz] :
        v \in {{"Size"}, {"Mode", "Mtime", "Size"}}, sz \in Sizes}
    \cup {[NoReq EXCEPT !.Valid = v, !.Mode = 292, !.Mtime = 1] :
        v \in {{}, {"Mode", "Mtime"}}}

ReadSizes == {1, MAX_FILE_SIZE, IntMax}

InitFile == Init /\ disk = NoFile

NextFile ==
    \/ Main_Start
    \/ pc = "serving" /\ Dir_Create(RootId, NameA, Owner.uid, Owner.gid, FileMode, Now)
    \/ \E f \in Files, off \in Offsets, bytes \in WriteData :
            pc = "serving" /\ File_Write(f, off, bytes, Now)
    \/ \E f \in Files, req \in FileReqs :
            pc = "serving" /\ File_Setattr(f, req, Now)
    \/ \E f \in Files, off \in Offsets, size \in ReadSizes :
            pc = "serving" /\ File_Read(f, off, size)

SpecFile == InitFile /\ [][NextFile]_vars

----------------------------------------------------------------------------
\* The names of the requests over every shape a name can take: the owner
\* makes, removes and renames entries of the tree under valid and invalid
\* names.

InvalidNames == {<<>>, <<".">>, <<".", ".">>, <<Sep>>, <<"a", Sep>>, <<"a", Sep, "b">>}

Names == InvalidNames \cup {NameA}

ServeNames ==
    /\ pc = "serving"
    /\ \/ \E name \in Names :
            Dir_Create(RootId, name, Owner.uid, Owner.gid, FileMode, Now)
       \/ \E name \in Names :
            Dir_Mkdir(RootId, name, Owner.uid, Owner.gid, DirMode, Now)
       \/ \E d \in Dirs, name \in Names :
            Dir_Remove(d, name, Owner.uid, Owner.gid, Now)
       \/ \E d \in Dirs, t \in Dirs, o \in Names, n \in Names :
            Dir_Rename(d, o, t, n, Owner.uid, Owner.gid, Now)

NextNames ==
    \/ Main_Start
    \/ ServeNames

SpecNames == InitFile /\ [][NextNames]_vars

----------------------------------------------------------------------------
\* Callers other than the owner: requests whose uid and gid each match or
\* differ from those of the root's owner, under a root whose mode an earlier
\* Setattr has set.

Callers == [uid : {0, 1}, gid : {0, 1}]

\* Modes in octal: 0755, 0777, 0572 and 0327.
PermModes == {7 * 64 + 5 * 8 + 5, 7 * 64 + 7 * 8 + 7,
              5 * 64 + 7 * 8 + 2, 3 * 64 + 2 * 8 + 7}

PermReqs == {[NoReq EXCEPT !.Valid = {"Mode"}, !.Mode = ModeDir + m] : m \in PermModes}

ServePerm ==
    /\ pc = "serving"
    /\ \/ \E req \in PermReqs : Dir_Setattr(RootId, req)
       \/ \E c \in Callers :
            Dir_Create(RootId, NameB, c.uid, c.gid, FileMode, Now)
       \/ \E c \in Callers :
            Dir_Mkdir(RootId, NameA, c.uid, c.gid, DirMode, Now)
       \/ \E name \in ValidNames, c \in Callers :
            Dir_Remove(RootId, name, c.uid, c.gid, Now)
       \/ \E d \in Dirs, t \in Dirs, c \in Callers :
            Dir_Rename(d, NameB, t, NameB, c.uid, c.gid, Now)

NextPerm ==
    \/ Main_Start
    \/ ServePerm

SpecPerm == InitFile /\ [][NextPerm]_vars

----------------------------------------------------------------------------
\* The allocator at the end of its range: the program starts cold, or on the
\* image of a run that saved an empty root with the counter at its last value.

LastCounterImage ==
    Marshall(MsgpackMarshal(
        [Version |-> X25FS_VERSION,
         RootDir |-> [Attributes |-> FreshRoot.Attributes[RootId], Children |-> EmptyMap],
         InodeCounter |-> UintMod - 1]))

InitAlloc ==
    /\ SetHeapInit
    /\ inodeCounter = 2
    /\ disk \in {NoFile, LastCounterImage}
    /\ tmp = NoFile
    /\ pc = "start"
    /\ ret = [op |-> "none", err |-> "OK"]
    /\ save = IdleSave
    /\ thr = NoThreads

ServeAlloc ==
    /\ pc = "serving"
    /\ \/ \E d \in Dirs, name \in ValidNames :
            Dir_Create(d, name, Owner.uid, Owner.gid, FileMode, Now)
       \/ \E d \in Dirs, name \in ValidNames :
            Dir_Mkdir(d, name, Owner.uid, Owner.gid, DirMode, Now)
       \/ \E d \in Dirs, name \in ValidNames :
            Dir_Remove(d, name, Owner.uid, Owner.gid, Now)

NextAlloc ==
    \/ Main_Start
    \/ ServeAlloc

SpecAlloc == InitAlloc /\ [][NextAlloc]_vars

----------------------------------------------------------------------------
\* The end of the serving phase (main.go:165-213), step by step: the main
\* goroutine in its select and the goroutine that runs fs.Serve.  pc of the
\* serve goroutine is "running" inside fs.Serve, "nil" or "error" when the
\* value fs.Serve returned sits in the buffer of serveErr, "panicked" when the
\* deferred function has recovered a panic, "done" when main has received.

MainGoroutines == {"main", "serve"}

InitMain ==
    /\ SetHeapInit
    /\ inodeCounter = 2
    /\ disk = NoFile
    /\ tmp = NoFile
    /\ pc = "start"
    /\ ret = [op |-> "none", err |-> "OK"]
    /\ save = IdleSave
    /\ thr = [g \in MainGoroutines |-> IdleThread]

\* main.go:168-180: the go statement; main reaches its select.
Go_Serve ==
    /\ pc = "serving"
    /\ thr["main"].pc = "idle"
    /\ thr' = [thr EXCEPT !["main"].pc = "select", !["serve"].pc = "running"]
    /\ UNCHANGED <<heapVars, inodeCounter, disk, tmp, pc, ret, save>>

\* main.go:177: fs.Serve returns e and the goroutine sends it on serveErr,
\* whose buffer of one takes it at once.
Serve_Return(e) ==
    /\ pc = "serving"
    /\ thr["serve"].pc = "running"
    /\ thr' = [thr EXCEPT !["serve"].pc = e]
    /\ UNCHANGED <<heapVars, inodeCounter, disk, tmp, pc, ret, save>>

\* main.go:170-175: a panic inside fs.Serve is recovered by the deferred
\* function, which logs it and unmounts; nothing is sent on serveErr.
Serve_Panic ==
    /\ pc = "serving"
    /\ thr["serve"].pc = "running"
    /\ thr' = [thr EXCEPT !["serve"].pc = "panicked"]
    /\ UNCHANGED <<heapVars, inodeCounter, disk, tmp, pc, ret, save>>

\* main.go:181-182: an interrupt or SIGTERM is delivered and the select takes
\* it.
Main_Signal ==
    /\ pc = "serving"
    /\ thr["main"].pc = "select"
    /\ thr' = [thr EXCEPT !["main"].pc = "unmount"]
    /\ UNCHANGED <<heapVars, inodeCounter, disk, tmp, pc, ret, save>>

\* log.Fatal: the process exits with status 1 where it stands.
LogFatal ==
    /\ ProcessEnds
    /\ ret' = [op |-> "exit", err |-> "1"]

\* main.go:183-187: fuse.Unmount succeeds, or fails and log.Fatal ends the
\* process.
Main_Unmount ==
    /\ pc = "serving"
    /\ thr["main"].pc = "unmount"
    /\ \/ /\ thr' = [thr EXCEPT !["main"].pc = "wait"]
          /\ UNCHANGED <<heapVars, inodeCounter, disk, tmp, pc, ret, save>>
       \/ LogFatal

\* main.go:188-190: main receives what fs.Serve returned; an error is logged.
Main_Wait ==
    /\ pc = "serving"
    /\ thr["main"].pc = "wait"
    /\ thr["serve"].pc \in {"nil", "error"}
    /\ thr' = [thr EXCEPT !["main"].pc = "save", !["serve"].pc = "done"]
    /\ UNCHANGED <<heapVars, inodeCounter, disk, tmp, pc, ret, save>>

\* main.go:192-196: the select receives what fs.Serve returned; an error ends
\* the process by log.Fatal.
Main_Recv ==
    /\ pc = "serving"
    /\ thr["main"].pc = "select"
    /\ thr["serve"].pc \in {"nil", "error"}
    /\ IF thr["serve"].pc = "error"
       THEN LogFatal
       ELSE /\ thr' = [thr EXCEPT !["main"].pc = "save", !["serve"].pc = "done"]
            /\ UNCHANGED <<heapVars, inodeCounter, disk, tmp, pc, ret, save>>

\* main.go:198: SaveData, once main has left its select.
Main_SaveData == thr["main"].pc = "save" /\ Main_Save

\* The requests fs.Serve hands to the handlers while it runs.
ServeMain ==
    /\ pc = "serving"
    /\ thr["serve"].pc = "running"
    /\ \/ \E name \in ValidNames :
            Dir_Create(RootId, name, Owner.uid, Owner.gid, FileMode, Now)
       \/ \E name \in ValidNames :
            Dir_Remove(RootId, name, Owner.uid, Owner.gid, Now)
       \/ \E f \in Files : File_Write(f, 0, <<1>>, Now)

NextMain ==
    \/ Main_Start
    \/ Go_Serve
    \/ ServeMain
    \/ \E e \in {"nil", "error"} : Serve_Return(e)
    \/ Serve_Panic
    \/ Main_Signal
    \/ Main_Unmount
    \/ Main_Wait
    \/ Main_Recv
    \/ Main_SaveData
    \/ Main_Exit

SpecMain == InitMain /\ [][NextMain]_vars

\* The main goroutine and a started goroutine are scheduled; fs.Serve returns
\* once the mount point is unmounted.  Signals, panics, requests and the end
\* of the transport come from outside and need not happen.
SpecMainFair ==
    /\ SpecMain
    /\ WF_vars(Main_Start)
    /\ WF_vars(Go_Serve)
    /\ WF_vars(Main_Unmount)
    /\ WF_vars(Main_Wait)
    /\ WF_vars(Main_Recv)
    /\ WF_vars(Main_SaveData)
    /\ WF_vars(Main_Exit)
    /\ WF_vars(thr["main"].pc = "wait" /\ \E e \in {"nil", "error"} : Serve_Return(e))

----------------------------------------------------------------------------
\* Properties of File (checked under SpecFile).

\* C5: every File.Write(offset, bytes) with offset + len(bytes) at most
\* MAX_FILE_SIZE succeeds, and a File.Read(offset, len(bytes)) issued next
\* returns exactly the bytes written.  The state right after a Write is the
\* state the next Read sees, so the Read is computed with ReadData.
WriteReadRoundTrip ==
    (ret.op = "Write" /\ ret.off + Len(ret.data) <= MAX_FILE_SIZE)
        => /\ ret.err = "OK"
           /\ ReadData(Data[ret.node], ret.off, Len(ret.data))
                  = [err |-> "OK", data |-> ret.data]

\* The same for the offsets that are not negative.
WriteReadRoundTripFromZero ==
    (ret.op = "Write" /\ 0 <= ret.off /\ ret.off + Len(ret.data) <= MAX_FILE_SIZE)
        => /\ ret.err = "OK"
           /\ ReadData(Data[ret.node], ret.off, Len(ret.data))
                  = [err |-> "OK", data |-> ret.data]

\* C6: a File.Write whose end offset exceeds MAX_FILE_SIZE returns EFBIG and
\* leaves the buffer and every attribute of every file as they were.
WriteTooLargeRejected ==
    [][(ret'.op = "Write" /\ ret'.off + Len(ret'.data) > MAX_FILE_SIZE)
          => (ret'.err = "EFBIG" /\ Data' = Data /\ Attributes' = Attributes)]_vars

\* A write past the maximum was refused on a file that holds bytes and whose
\* modify time differs from the clock, so that a change would show.
WriteTooLargeSeen ==
    /\ ret.op = "Write"
    /\ ret.err = "EFBIG"
    /\ ret.off + Len(ret.data) > MAX_FILE_SIZE
    /\ Len(ret.data) > 0
    /\ Data[ret.node].len > 0
    /\ Attributes[ret.node].Mtime # Now

\* C10: in every reachable state, for every file, Attributes.Size equals the
\* length of the byte buffer and that length is at most MAX_FILE_SIZE.
SizeIsBufferLength ==
    \A f \in Files :
        Attributes[f].Size = Data[f].len /\ Data[f].len <= MAX_FILE_SIZE

----------------------------------------------------------------------------
\* Properties of the tree and of the image (checked under Spec and SpecRuns).

Range(f) == {f[x] : x \in DOMAIN f}

\* The nodes found from the set S along at most k more steps of the children maps.
RECURSIVE ReachFrom(_, _)
ReachFrom(S, k) ==
    IF k = 0 THEN S
    ELSE ReachFrom(S \cup UNION {Range(Children[m]) : m \in S \cap Dirs}, k - 1)

Descendants(d) == ReachFrom(Range(Children[d]), MaxNodes)

Reachable == IF kind[RootId] = "dir" THEN {RootId} \cup Descendants(RootId) ELSE {}

\* The image on the disk path, decoded.
DiskEnvelope == MsgpackUnmarshal(Unmarshall(disk))

\* C2: LoadData applied to the image SaveData has just written returns a tree
\* with the same names, kinds, attributes (inode included) and file bytes at
\* every path, and seeds the inode counter with the value it had at the save.
\* The *Dir LoadData returns is the first object it allocates.
SaveLoadRoundTrip ==
    (pc = "saved" /\ ret = [op |-> "SaveData", err |-> "OK"])
        => LET r == LoadData(2, disk)
           IN  /\ r.err = "OK"
               /\ ViewOf(r.heap, FreeIn(EmptyHeap), <<>>) = TreeView
               /\ r.counter = inodeCounter

\* A tree was saved that holds a file with bytes inside a subdirectory.
SavedDeepTree ==
    /\ pc = "saved"
    /\ ret = [op |-> "SaveData", err |-> "OK"]
    /\ \E d \in Dirs \ {RootId}, f \in Files :
          /\ d \in Range(Children[RootId])
          /\ f \in Range(Children[d])
          /\ Data[f].len > 0
          /\ Attributes[f].Inode > Attributes[d].Inode

\* C4: when the version of the decrypted envelope differs from X25FS_VERSION,
\* LoadData returns an error and no tree, and the inode counter keeps the
\* value it had before the call.
VersionMismatchLeavesNothing ==
    [][(/\ pc = "start"
        /\ pc' \in {"serving", "fatal"}
        /\ UnmarshallOk(disk)
        /\ DiskEnvelope.Version # X25FS_VERSION)
          => /\ ret'.op = "LoadData"
             /\ ret'.err = "version"
             /\ pc' = "fatal"
             /\ kind' = EmptyHeap.kind
             /\ Children' = EmptyHeap.Children
             /\ inodeCounter' = inodeCounter]_vars

\* A load has failed on an image of another version whose stored counter is
\* not the counter of the process.
VersionMismatchSeen ==
    /\ pc = "fatal"
    /\ ret.op = "LoadData"
    /\ ret.err = "version"
    /\ ret.version # X25FS_VERSION
    /\ DiskEnvelope.InodeCounter # inodeCounter

\* No handler changes the inode of a node.
InodeKept ==
    \A n \in NodeIds :
        (kind[n] # "none" /\ kind'[n] # "none" /\ pc = "serving" /\ pc' # "exited")
            => Attributes'[n].Inode = Attributes[n].Inode

\* The inodes of the tree are distinct, 1 is the root's alone, and none is
\* beyond the counter.
InodesDistinct ==
    /\ \A m, n \in Reachable : m # n => Attributes[m].Inode # Attributes[n].Inode
    /\ \A n \in Reachable \ {RootId} : Attributes[n].Inode # 1
    /\ \A n \in Reachable : Attributes[n].Inode <= inodeCounter

Acyclic == \A d \in Dirs : d \notin Descendants(d)

----------------------------------------------------------------------------
\* Properties of SaveData (checked under SpecSave).

\* The file at the disk path is absent or a whole image: a sealed payload that
\* decodes to an envelope.
DiskWhole == disk = NoFile \/ (UnmarshallOk(disk) /\ disk[2] \in Nat /\ disk[4] \in Nat)

\* The file at the disk path changes only by the rename of the complete new
\* image over it, in a SaveData without error; a failing step leaves it, and
\* SaveData returns the error of the step that failed.
DiskStep ==
    /\ disk' # disk =>
          /\ save.pc = "write"
          /\ save.err = "OK" /\ save'.err = "OK"
          /\ disk' = save.enc
          /\ save.enc = Marshall(MsgpackMarshal(Envelope(save.root, save.counter)))
    /\ (save.err = "OK" /\ save'.err # "OK") => (disk' = disk /\ save'.pc = "return")
    /\ (save.pc = "return" /\ pc' = "saved") =>
          (disk' = disk /\ ret' = [op |-> "SaveData", err |-> save.err])

\* C3: at every point of a SaveData execution, a kill between two of its
\* steps included, the file at the disk path holds the complete previous
\* image or the complete new one; when serialization, encryption or the write
\* fails, SaveData returns an error and the file is left as it was.
AtomicReplace == []DiskWhole /\ [][DiskStep]_vars

\* The new image is partly written while the previous image of another tree
\* is the file at the disk path.
MidWriteOverPrevious ==
    /\ save.pc = "write"
    /\ 0 < Len(tmp)
    /\ Len(tmp) < Len(save.enc)
    /\ UnmarshallOk(disk)
    /\ DiskEnvelope.Version = X25FS_VERSION
    /\ disk # save.enc

\* The inodes of a mirror.
RECURSIVE MirrorInodes(_)
MirrorInodes(sd) ==
    {sd.Attributes.Inode}
    \cup UNION {IF sd.Children[k].Type = "dir"
                THEN MirrorInodes(sd.Children[k].Dir)
                ELSE {sd.Children[k].File.Attributes.Inode} : k \in DOMAIN sd.Children}

----------------------------------------------------------------------------
\* Properties of the locks of Rename (checked under SpecLock).

\* A goroutine that holds its first lock and waits for its second holds the
\* directory with the lower inode; both locks are the two operands; a Rename
\* inside one directory holds that one lock.
OrderedLocks ==
    \A g \in DOMAIN thr :
        LET c == thr[g]
        IN  /\ c.pc = "lock2" =>
                  /\ c.held = {c.first}
                  /\ {c.first, c.second} = {c.d, c.t}
                  /\ Attributes[c.first].Inode < Attributes[c.second].Inode
            /\ c.pc = "body" => c.held = {c.d, c.t}
            /\ c.d = c.t => (c.pc # "lock2" /\ Cardinality(c.held) <= 1)

\* No two goroutines each wait for a lock the other holds.
NoCircularWait ==
    ~ \E g, h \in DOMAIN thr :
          /\ g # h
          /\ thr[g].pc = "lock2" /\ thr[h].pc = "lock2"
          /\ thr[g].second \in thr[h].held
          /\ thr[h].second \in thr[g].held

\* While a Rename is in progress, one of the Rename calls can take its step.
SomeRenameRuns ==
    (\E g \in DOMAIN thr : thr[g].pc # "idle")
        => \E g \in DOMAIN thr :
              \/ thr[g].pc = "lock1" /\ LockReturns(g, thr[g].first)
              \/ thr[g].pc = "lock2" /\ LockReturns(g, thr[g].second)
              \/ thr[g].pc = "body"

\* C1: two Rename calls that cross the same pair of directories in opposite
\* directions never each wait for a lock the other holds: both lock the
\* directory with the lower inode first and the higher second, and take one
\* lock when source and destination are the same directory.
RenameNeverDeadlocks == OrderedLocks /\ NoCircularWait /\ SomeRenameRuns

\* Two Rename calls cross the same two directories in opposite directions:
\* one holds its first lock and waits for its second, the other waits for the
\* lock the first one holds.
CrossingRenames ==
    \E g, h \in DOMAIN thr :
        /\ g # h
        /\ thr[g].d # thr[g].t
        /\ thr[h].d = thr[g].t /\ thr[h].t = thr[g].d
        /\ thr[g].pc = "lock2"
        /\ thr[h].pc = "lock1"
        /\ thr[h].first \in thr[g].held
        /\ thr[g].oldName \in DOMAIN Children[thr[g].d]

----------------------------------------------------------------------------
\* Properties of the handlers' error paths (checked under SpecFile).

\* The operations of a node that can return an error, and the errors they
\* return to the transport.
NodeOps == {"Create", "Mkdir", "Remove", "Rename", "Write", "Setattr"}

Errnos == {"EINVAL", "EEXIST", "EACCES", "EPERM", "ENOENT", "EFBIG"}

\* C11: a Create, Mkdir, Remove, Rename, Write or Setattr that returns an
\* error leaves the children of every directory, every attribute, every
\* buffer and the inode counter as they were; a File.Setattr that selects
\* mode, uid, gid or times together with a size above the maximum returns
\* EFBIG with none of the selected fields applied.
RejectedLeavesNoPartialState ==
    [][(ret'.op \in NodeOps /\ ret'.err \in Errnos)
          => UNCHANGED <<heapVars, inodeCounter>>]_vars

\* C17: a Setattr changes exactly the fields its mask selects among mode,
\* uid, gid, atime, mtime and size: a selected field ends with the requested
\* value, the mtime included, and every other field keeps the value it had,
\* the mtime included when the size is selected without it.
SetattrChangesSelectedOnly ==
    [][(ret'.op = "Setattr" /\ ret'.err = "OK") =>
          LET req == ret'.req
              before == Attributes[ret'.node]
              after == Attributes'[ret'.node]
              Kept(field) == after[field] = before[field]
              Set(field) == after[field] = req[field]
          IN  /\ \A field \in {"Mode", "Uid", "Gid", "Atime", "Mtime", "Size"} :
                     IF field \in req.Valid THEN Set(field) ELSE Kept(field)
              /\ Kept("Inode") /\ Kept("Ctime")]_vars

\* What C18 says a Read(off, size) of the buffer s returns.
ReadRange(s, off, size) ==
    IF off >= s.len THEN <<>>
    ELSE SubSeq(s.arr, off + 1, Min(off + size, s.len))

\* C18: a File.Read never returns an error: at an offset at or beyond the
\* length of the data it returns the empty result, otherwise the bytes from
\* the offset to min(offset + size, length); it changes neither the buffer
\* nor the attributes.
ReadNeverFails ==
    [][ret'.op = "Read" =>
          /\ ret'.err = "OK"
          /\ ret'.data = ReadRange(Data[ret'.node], ret'.off, ret'.size)
          /\ UNCHANGED <<Data, Attributes>>]_vars

\* The same for the offsets that are not negative and whose sum with the size
\* fits the signed integer.
ReadNeverFailsFromZero ==
    [][(ret'.op = "Read" /\ 0 <= ret'.off /\ ret'.off + ret'.size <= IntMax) =>
          /\ ret'.err = "OK"
          /\ ret'.data = ReadRange(Data[ret'.node], ret'.off, ret'.size)
          /\ UNCHANGED <<Data, Attributes>>]_vars

----------------------------------------------------------------------------
\* Properties of the names (checked under SpecNames).

\* A name the tree must never hold: empty, ".", "..", or with a separator in
\* it, the one-character name "/" included.
BadName(name) ==
    \/ name = <<>>
    \/ name = <<".">>
    \/ name = <<".", ".">>
    \/ \E i \in 1..Len(name) : name[i] = "/"

\* C12: Create, Mkdir, Remove and Rename (for its old and for its new name)
\* refuse every name that is empty, ".", ".." or holds a separator, so no
\* children mapping ever holds such a name.
NoBadNameInTree ==
    \A d \in Dirs : \A name \in DOMAIN Children[d] : ~BadName(name)

----------------------------------------------------------------------------
\* Properties of the permission checks (checked under SpecPerm).

\* The bit of the one triad of a directory's mode that applies to a caller:
\* the owner's when the uid matches, else the group's when the gid matches,
\* else that of the others.  shift is 2 for write and 1 for execute.
TriadBit(c, attr, shift) ==
    LET triad == IF c.uid = attr.Uid THEN 64
                 ELSE IF c.gid = attr.Gid THEN 8 ELSE 1
    IN  (attr.Mode \div (triad * shift)) % 2 = 1

\* C13 as stated: every Rename by a caller whose uid and gid differ from
\* those of the owner of the destination directory returns a permission
\* error and leaves every children mapping as it was.  Read from the result:
\* a Rename step that ends otherwise is the call of no such caller.
RenameByStrangerDenied ==
    [][(ret'.op = "Rename" /\ ~(ret'.err = "EACCES" /\ Children' = Children)) =>
          \A c \in Callers, t \in Dirs :
              (c.uid # Attributes[t].Uid /\ c.gid # Attributes[t].Gid) =>
                  \A d \in Dirs :
                      ~Dir_Rename(d, NameB, t, NameB, c.uid, c.gid, Now)]_vars

\* C13: a Rename under valid names by a caller to whom the mode of the
\* source or of the destination directory does not grant the write bit (of
\* the owner, else group, else other triad) returns EACCES and leaves every
\* children mapping as it was.  Read from the result: a Rename step that ends
\* otherwise is the call of no such caller.
RenameWithoutWriteBitDenied ==
    [][(ret'.op = "Rename" /\ ~(ret'.err = "EACCES" /\ Children' = Children)) =>
          \A c \in Callers, d \in Dirs, t \in Dirs :
              (~TriadBit(c, Attributes[t], 2) \/ ~TriadBit(c, Attributes[d], 2)) =>
                  ~Dir_Rename(d, NameB, t, NameB, c.uid, c.gid, Now)]_vars

\* A Rename was refused for its caller's permissions in a root that holds an
\* entry and whose mode withholds the write bit from the others.
RenameDeniedSeen ==
    /\ ret = [op |-> "Rename", err |-> "EACCES"]
    /\ Children[RootId] # EmptyMap
    /\ ~HasBit(Attributes[RootId].Mode, 2)

\* C15: a Create under a valid name the directory does not hold succeeds if
\* and only if the mode of the directory grants the caller both the write
\* and the execute bit of the one triad that applies (owner when the uid
\* matches, else group when the gid matches, else other); when it does not,
\* the call returns EACCES, allocates no inode and changes no node.
CreateNeedsWriteAndExecute ==
    [][ret'.op = "Create" =>
          \A c \in Callers :
              (/\ NameB \notin DOMAIN Children[RootId]
               /\ Dir_Create(RootId, NameB, c.uid, c.gid, FileMode, Now))
                  => IF /\ TriadBit(c, Attributes[RootId], 2)
                        /\ TriadBit(c, Attributes[RootId], 1)
                     THEN /\ ret'.err = "OK"
                          /\ NameB \in DOMAIN Children'[RootId]
                          /\ inodeCounter' = inodeCounter + 1
                     ELSE /\ ret'.err = "EACCES"
                          /\ UNCHANGED <<heapVars, inodeCounter>>]_vars

\* A Create was refused under a mode that grants the others the write bit
\* without the execute bit, in a root that holds no entry of that name.
CreateDeniedSeen ==
    /\ ret = [op |-> "Create", err |-> "EACCES"]
    /\ NameB \notin DOMAIN Children[RootId]
    /\ HasBit(Attributes[RootId].Mode, 2)
    /\ ~HasBit(Attributes[RootId].Mode, 1)

\* The caller is the owner of the directory: same uid and same gid.
OwnerCalls(c, attr) == c.uid = attr.Uid /\ c.gid = attr.Gid

\* C16: a Mkdir under a valid name the directory does not hold, and a Remove
\* of a name it holds, succeed if and only if the caller's uid and gid are
\* those of the directory's owner, whatever the bits of its mode; otherwise
\* they return EPERM and change no children mapping and no attribute.
MkdirRemoveNeedOwner ==
    [][ret'.op \in {"Mkdir", "Remove"} =>
          \A c \in Callers :
              /\ (/\ NameA \notin DOMAIN Children[RootId]
                  /\ Dir_Mkdir(RootId, NameA, c.uid, c.gid, DirMode, Now))
                     => IF OwnerCalls(c, Attributes[RootId])
                        THEN /\ ret'.err = "OK"
                             /\ NameA \in DOMAIN Children'[RootId]
                        ELSE /\ ret'.err = "EPERM"
                             /\ UNCHANGED <<Children, Attributes>>
              /\ \A name \in ValidNames :
                     (/\ name \in DOMAIN Children[RootId]
                      /\ Dir_Remove(RootId, name, c.uid, c.gid, Now))
                         => IF OwnerCalls(c, Attributes[RootId])
                            THEN /\ ret'.err = "OK"
                                 /\ name \notin DOMAIN Children'[RootId]
                            ELSE /\ ret'.err = "EPERM"
                                 /\ UNCHANGED <<Children, Attributes>>]_vars

\* A Remove was refused with EPERM in a root whose mode grants every caller
\* the write and the execute bit.
RemoveDeniedSeen ==
    /\ ret = [op |-> "Remove", err |-> "EPERM"]
    /\ Children[RootId] # EmptyMap
    /\ Perm(Attributes[RootId].Mode) = 511

----------------------------------------------------------------------------
\* Properties of the effect of Rename (checked under Spec).

\* The entry of directory e under name m: the node it maps to, or 0.
Entry(ch, e, m) == IF m \in DOMAIN ch[e] THEN ch[e][m] ELSE 0

\* What a successful Rename(o, t, n) on directory d did, read from the
\* children mappings before and after: t maps n to the moved node, d maps o no
\* longer unless the entry was renamed onto itself, every other entry of every
\* directory is as before, and of the nodes the root reached only the
\* replaced one and what hung under it can be lost.
RenameEffect(d, o, t, n) ==
    /\ o \in DOMAIN Children[d]
    /\ LET moved == Children[d][o]
           old == Entry(Children, t, n)
           replaced == IF old \in {0, moved} THEN {}
                       ELSE ReachFrom({old}, MaxNodes)
       IN  /\ Entry(Children', t, n) = moved
           /\ (o \in DOMAIN Children'[d]) <=> (d = t /\ o = n)
           /\ \A e \in Dirs : \A m \in DOMAIN Children[e] \cup DOMAIN Children'[e] :
                  (<<e, m>> \notin {<<d, o>>, <<t, n>>})
                      => Entry(Children', e, m) = Entry(Children, e, m)
           /\ (Reachable \ replaced) \subseteq Reachable'

\* C14: after a successful Rename the destination maps newName to the moved
\* node, replacing what it mapped before; the source maps oldName no longer,
\* unless both directories and both names are the same; every other entry of
\* every directory is unchanged; no node other than a replaced one becomes
\* unreachable.
RenameMovesOneEntry ==
    [][(ret'.op = "Rename" /\ ret'.err = "OK")
          => \E d \in Dirs, t \in Dirs, o \in ValidNames, n \in ValidNames :
                 RenameEffect(d, o, t, n)]_vars

\* The same for the calls whose destination the root reaches and that do not
\* move a directory into itself or under one of its descendants.
RenameMovesOneEntryOutsideItself ==
    [][(ret'.op = "Rename" /\ ret'.err = "OK")
          => \E d \in Dirs, t \in Dirs, o \in ValidNames, n \in ValidNames :
                 /\ o \in DOMAIN Children[d]
                 /\ Children' = RenameMove(d, o, t, n)
                 /\ \/ RenameEffect(d, o, t, n)
                    \/ t \in ReachFrom({Children[d][o]}, MaxNodes)
                    \/ t \notin Reachable]_vars

----------------------------------------------------------------------------
\* Properties of the shutdown (checked under SpecMainFair).

\* The serving phase has ended: main has taken a signal, or fs.Serve has
\* returned or panicked.
ServingEnded ==
    /\ pc = "serving"
    /\ \/ thr["main"].pc \in {"unmount", "wait", "save"}
       \/ thr["serve"].pc \in {"nil", "error", "panicked", "done"}

\* C19: once mounted, every end of the serving phase (a signal, fs.Serve
\* returning with or without an error, a panic inside the serve goroutine)
\* leads to the exit of the process; the process exits only after its one
\* SaveData, which starts only after fs.Serve has returned and main has
\* received its result; main never waits forever.
ShutdownSavesOnce ==
    /\ [][pc' = "exited" => pc = "saved"]_vars
    /\ [][(pc = "serving" /\ pc' = "saved") => thr["serve"].pc = "done"]_vars
    /\ ServingEnded ~> (pc = "exited")

\* The last part alone: every end of the serving phase leads to the exit.
ShutdownEnds == ServingEnded ~> (pc = "exited")

----------------------------------------------------------------------------
\* Properties of the inode allocator (checked under SpecAlloc).

\* The inodes issued so far to the nodes of this process: that of the root and
\* every value GetInodeAndIncrease returned to a Create or a Mkdir.
IssuedInodes == {Attributes[n].Inode : n \in {m \in NodeIds : kind[m] # "none"}}

\* C20: every value GetInodeAndIncrease returns is greater than every inode
\* issued before it, that of the root included; the call that wraps the
\* counter to zero faults, and no call after it returns an inode, so no
\* inode is issued twice.
AllocatorNeverReissues ==
    [][ret'.op \in {"Create", "Mkdir"} =>
          /\ (ret'.err = "PANIC") <=> (inodeCounter # 0 /\ inodeCounter' = 0)
          /\ ret'.err = "OK" => \A i \in IssuedInodes : inodeCounter' > i]_vars

\* The same for the calls made before the counter has wrapped: while the
\* counter is at least every inode issued and the call does not wrap it.
AllocatorIncreasesUntilWrap ==
    [][(/\ ret'.op \in {"Create", "Mkdir"}
        /\ \A i \in IssuedInodes : i <= inodeCounter
        /\ inodeCounter' # 0) =>
          /\ ret'.err # "PANIC"
          /\ ret'.err = "OK" => \A i \in IssuedInodes : inodeCounter' > i]_vars

----------------------------------------------------------------------------
\* Requests over the whole range of their types (checked under SpecFile).

\* A request whose offset is negative, whose offset + length does not fit the
\* signed integer, or whose size does not fit it.
BeyondSigned(r) ==
    CASE r.op = "Write" -> r.off < 0 \/ r.off + Len(r.data) > IntMax
      [] r.op = "Setattr" -> "Size" \in r.req.Valid /\ r.req.Size > IntMax
      [] OTHER -> FALSE

\* C25: for every signed offset and every unsigned size, File.Write,
\* File.Read and File.Setattr end with their result or with TooLarge and
\* never index the buffer out of range; a negative offset, a wrapping
\* offset + length and a size that does not fit the signed integer give
\* TooLarge and leave the file unchanged.
NoIndexOutOfRange ==
    [][ret'.op \in {"Write", "Read", "Setattr"} =>
          /\ ret'.err \in {"OK", "EFBIG"}
          /\ BeyondSigned(ret') =>
                ret'.err = "EFBIG" /\ UNCHANGED <<Attributes, Data>>]_vars

----------------------------------------------------------------------------
\* The bytes of a file that no Write has set (checked under SpecFile).

\* The positions (from 1) that the call recorded in r has written.
WrittenBy(r) ==
    IF r.op = "Write" /\ r.err = "OK"
    THEN (r.off + 1)..(r.off + Len(r.data))
    ELSE {}

\* C24: a Write or a Setattr leaves every position it does not write as it
\* was when the position is below the length before the call, and zero when
\* it is at or above it: the gap of a Write past the end reads as zero, and
\* bytes cut off by a shrinking Setattr do not come back when the file grows
\* again by Write or by Setattr.
UnwrittenReadsZero ==
    [][ret'.op \in {"Write", "Setattr"} =>
          LET f == ret'.node
          IN  \A p \in 1..Data'[f].len :
                  IF p \in WrittenBy(ret')
                  THEN Data'[f].arr[p] = ret'.data[p - ret'.off]
                  ELSE IF p <= Data[f].len
                       THEN Data'[f].arr[p] = Data[f].arr[p]
                       ELSE Data'[f].arr[p] = 0]_vars

\* A Setattr has cut the file below a byte that was set: the byte is still in
\* the backing array, beyond the length.
ShrunkOverSetByte ==
    /\ ret.op = "Setattr"
    /\ ret.err = "OK"
    /\ "Size" \in ret.req.Valid
    /\ Data[ret.node].len = ret.req.Size
    /\ Data[ret.node].len < Len(Data[ret.node].arr)
    /\ Data[ret.node].arr[Data[ret.node].len + 1] = 1

----------------------------------------------------------------------------
\* The walk of SerializeDir next to the handlers of a file: one file under the
\* root, written one byte at a time and resized, at offsets and sizes within
\* the maximum, while SaveData walks the tree.

RecordReqs == {[NoReq EXCEPT !.Valid = {"Size"}, !.Size = sz] : sz \in 0..MAX_FILE_SIZE}

NextRecord ==
    \/ Main_Start
    \/ pc = "serving" /\ Dir_Create(RootId, NameA, Owner.uid, Owner.gid, FileMode, Now)
    \/ \E f \in Files, off \in 0..MAX_FILE_SIZE :
            pc = "serving" /\ File_Write(f, off, <<1>>, Now)
    \/ \E f \in Files, req \in RecordReqs :
            pc = "serving" /\ File_Setattr(f, req, Now)
    \/ Save_Begin
    \/ Serialize_Root
    \/ Serialize_Child
    \/ Serialize_File
    \/ Serialize_Return

SpecRecord == InitFile /\ [][NextRecord]_vars

\* The file records of a serialized directory, those of its subdirectories
\* included.
RECURSIVE FileRecords(_)
FileRecords(sd) ==
    UNION {IF sd.Children[k].Type = "file"
           THEN {sd.Children[k].File}
           ELSE FileRecords(sd.Children[k].Dir) : k \in DOMAIN sd.Children}

\* The records SerializeDir has produced so far.
RecordsProduced ==
    UNION {FileRecords(save.stack[i].sd) : i \in 1..Len(save.stack)}
    \cup (IF save.root = Nil THEN {} ELSE FileRecords(save.root))

\* C23: every file record SerializeDir produces carries attributes and bytes
\* the file had at one instant: its recorded size is the length of its
\* recorded data, also when File.Write and File.Setattr run during the walk.
RecordSizeIsDataLength ==
    \A r \in RecordsProduced : r.Attributes.Size = Len(r.Data)

\* The same for the file itself, which the handlers keep consistent at these
\* offsets and sizes.
FileSizeIsDataLength ==
    \A f \in Files : Attributes[f].Size = Data[f].len

----------------------------------------------------------------------------
\* The tree walk of SaveData next to Rename calls served by two goroutines,
\* on a tree the owner makes with Mkdir.  The walk holds the read lock of
\* every directory on its path while it takes that of a child.

ServeWalk ==
    \/ \E name \in ValidNames :
            pc = "serving" /\ Dir_Mkdir(RootId, name, Owner.uid, Owner.gid, DirMode, Now)
    \/ \E g \in Goroutines, d \in Dirs, t \in Dirs :
            pc = "serving" /\ Rename_Call(g, d, NameA, t, NameA, Owner.uid, Owner.gid)
    \/ \E g \in Goroutines : Rename_Queue(g)
    \/ \E g \in Goroutines : Rename_Lock1(g)
    \/ \E g \in Goroutines : Rename_Lock2(g)
    \/ \E g \in Goroutines : Rename_Body(g)

NextWalk ==
    \/ Main_Start
    \/ ServeWalk
    \/ SaveDirsStep

SpecWalk == InitLock /\ [][NextWalk]_vars

\* The walk is not blocked in an RLock: the directory it is about to enter
\* admits a reader, or it has something else to do.
WalkCanStep ==
    \/ save.pc \notin {"idle", "serialize"}
    \/ /\ save.pc = "serialize"
       /\ IF save.stack = <<>>
          THEN CanRLock(RootId)
          ELSE \/ Top.file # Nil
               \/ Top.todo = {}
               \/ \E name \in Top.todo :
                     \/ kind[Children[Top.dir][name]] # "dir"
                     \/ CanRLock(Children[Top.dir][name])

\* The Rename of g is not blocked in a Lock.
RenameCanStep(g) ==
    \/ thr[g].pc = "body"
    \/ thr[g].pc \in {"lock1", "lock2"} /\ LockReturns(g, Wanted(g))

\* C21: no interleaving of Rename calls, single-directory operations and a
\* tree walk that holds a parent's read lock while it takes a child's (and
\* the root's twice) reaches a state where the operations in progress all
\* wait: while a walk or a Rename is in progress, one of them can go on.
WalkNeverDeadlocks ==
    (save.pc # "idle" \/ \E g \in DOMAIN thr : thr[g].pc # "idle")
        => \/ WalkCanStep
           \/ \E g \in DOMAIN thr : RenameCanStep(g)

\* The part of it that needs no queued writer: the walk never waits for a
\* directory locked by a Rename that waits for a directory the walk holds.
NoCycleWithWalk ==
    ~ \E g \in DOMAIN thr :
          /\ thr[g].pc = "lock2"
          /\ RLockedBySave(thr[g].second)
          /\ save.pc = "serialize"
          /\ save.stack # <<>>
          /\ Top.file = Nil
          /\ Top.todo # {}
          /\ \A name \in Top.todo : Children[Top.dir][name] \in thr[g].held

----------------------------------------------------------------------------
\* The attributes of the root read and written by Setattr, Attr, a Rename
\* inside the root and the walk of SaveData, all by the owner.

\* Modes in octal: 0755 and 0555.
AttrReqs ==
    {[NoReq EXCEPT !.Valid = {"Mode"}, !.Mode = ModeDir + m] :
        m \in {7 * 64 + 5 * 8 + 5, 5 * 64 + 5 * 8 + 5}}

Renamer == CHOOSE g \in Goroutines : TRUE

ServeAttr ==
    \/ pc = "serving" /\ Dir_Mkdir(RootId, NameA, Owner.uid, Owner.gid, DirMode, Now)
    \/ \E req \in AttrReqs : pc = "serving" /\ Dir_Setattr(RootId, req)
    \/ pc = "serving" /\ Dir_Attr(RootId)
    \/ pc = "serving"
          /\ Rename_Call(Renamer, RootId, NameA, RootId, NameB, Owner.uid, Owner.gid)
    \/ Rename_Queue(Renamer)
    \/ Rename_Lock1(Renamer)
    \/ Rename_Body(Renamer)

NextAttr ==
    \/ Main_Start
    \/ ServeAttr
    \/ SaveDirsStep

SpecAttr == InitLock /\ [][NextAttr]_vars

\* A step that changes the attributes of a directory is taken while no walk
\* holds the directory's read lock.
WritesAreExclusive ==
    [][\A d \in Dirs : Attributes'[d] # Attributes[d] => ~RLockedBySave(d)]_vars

\* A Dir.Attr is served while no Rename holds the directory's lock.
ReadsAreShared ==
    [][(ret'.op = "Attr" /\ ret' # ret) => ~LockedByRename(ret'.node)]_vars

\* A Rename moves its entry while the attributes of both directories grant
\* the caller the write bit.
RenameDecisionCurrent ==
    [][\A g \in DOMAIN thr :
          (thr[g].pc = "body" /\ thr'[g].pc = "idle" /\ Children' # Children) =>
              /\ hasWritePermission(Owner.uid, Owner.gid, Attributes[thr[g].d])
              /\ hasWritePermission(Owner.uid, Owner.gid, Attributes[thr[g].t])]_vars

\* C22: every read of a node's attributes, children or bytes happens under
\* the node's lock held at least shared and every write under the lock held
\* exclusive, Dir.Setattr and Dir.Attr included, and the permission check of
\* Dir.Rename reflects the directories' attributes as they are when the
\* entry is moved.
AccessesFollowLocks ==
    /\ WritesAreExclusive
    /\ ReadsAreShared
    /\ RenameDecisionCurrent

====
